---- MODULE Spec2Model ----
(***************************************************************************)
(* Model of rstube (src/src/main.rs): an egui front-end whose Download     *)
(* button spawns a tokio task that runs yt-dlp, parses its stdout for a    *)
(* percentage and publishes status / progress / history through three      *)
(* separately locked cells.                                                *)
(*                                                                         *)
(* Text: a stdout line is a tuple of one-character strings.  The status    *)
(* strings of the source contain non-ASCII characters; they are written    *)
(* here with ASCII stand-ins ("..." for the ellipsis, no emoji).           *)
(*                                                                         *)
(* Numbers: an f32 is a fixed-point integer counting 1/FP, so 1.0 is FP.   *)
(* The lines of the model carry at most three decimals, for which the      *)
(* division by 100 is exact in this representation.                        *)
(***************************************************************************)
EXTENDS Integers, Sequences, FiniteSets, TLC

VARIABLES status, progress, history, jobs, ui, child

vars == <<status, progress, history, jobs, ui, child>>

\* ------------------------------------------------------------------ bounds
\* number of Download clicks that spawn a task (Spec)
MaxJobs == 2
\* number of stdout lines one job reads (SpecSingle, where they are logged)
MaxLines == 3
\* length of the stdout lines drawn from the alphabet (SpecParse)
MaxLineLen == 4
\* what a subprocess wants to write: stdout lines and stderr chunks (SpecLive)
MaxOut == 3
MaxErr == 2
\* chunks a pipe holds before a write to it blocks (SpecLive)
PipeCap == 1

\* ------------------------------------------------------------ fixed point
FP == 100000

None == [some |-> FALSE]
Some(v) == [some |-> TRUE, val |-> v]

\* ------------------------------------------------------------- text utils
Digit == {"0", "1", "2", "3", "4", "5", "6", "7", "8", "9"}

DigitVal(c) ==
  CASE c = "0" -> 0 [] c = "1" -> 1 [] c = "2" -> 2 [] c = "3" -> 3
    [] c = "4" -> 4 [] c = "5" -> 5 [] c = "6" -> 6 [] c = "7" -> 7
    [] c = "8" -> 8 [] c = "9" -> 9

IsWhitespace(c) == c \in {" ", "\t"}

\* str::find(ch): 1-based index of the first occurrence, 0 when there is none
find(s, ch) ==
  IF \E i \in 1..Len(s) : s[i] = ch
  THEN CHOOSE i \in 1..Len(s) : s[i] = ch /\ \A k \in 1..(i - 1) : s[k] # ch
  ELSE 0

\* str::rfind(ch): 1-based index of the last occurrence, 0 when there is none
rfind(s, ch) ==
  IF \E i \in 1..Len(s) : s[i] = ch
  THEN CHOOSE i \in 1..Len(s) : s[i] = ch /\ \A k \in (i + 1)..Len(s) : s[k] # ch
  ELSE 0

\* str::trim(): strips leading and trailing whitespace
RECURSIVE trim_start(_)
trim_start(s) ==
  IF s # <<>> /\ IsWhitespace(Head(s)) THEN trim_start(Tail(s)) ELSE s

RECURSIVE trim_end(_)
trim_end(s) ==
  IF s # <<>> /\ IsWhitespace(s[Len(s)])
  THEN trim_end(SubSeq(s, 1, Len(s) - 1)) ELSE s

trim(s) == trim_end(trim_start(s))

RECURSIVE Pow10(_)
Pow10(n) == IF n = 0 THEN 1 ELSE 10 * Pow10(n - 1)

\* value of a digit string as a natural number (the empty string is 0)
RECURSIVE DigitsVal(_)
DigitsVal(s) ==
  IF s = <<>> THEN 0
  ELSE 10 * DigitsVal(SubSeq(s, 1, Len(s) - 1)) + DigitVal(s[Len(s)])

AllDigits(s) == \A i \in 1..Len(s) : s[i] \in Digit

\* <f32 as FromStr>::from_str on a token of sign, digits and '.'.
\*   Number ::= [sign] ( Digit+ | Digit+ '.' Digit* | Digit* '.' Digit+ )
\* Tokens with any other character are rejected; the lines of the model never
\* spell an exponent, "inf", "infinity" or "nan", which from_str also accepts.
parse_f32(tok) ==
  LET signed == tok # <<>> /\ tok[1] \in {"+", "-"}
      body   == IF signed THEN Tail(tok) ELSE tok
      dot    == find(body, ".")
      ip     == IF dot = 0 THEN body ELSE SubSeq(body, 1, dot - 1)
      fp     == IF dot = 0 THEN <<>> ELSE SubSeq(body, dot + 1, Len(body))
      ok     == /\ AllDigits(ip) /\ AllDigits(fp)
                /\ Len(ip) + Len(fp) > 0
                /\ Len(fp) <= 3
      mag    == DigitsVal(ip) * FP + (DigitsVal(fp) * FP) \div Pow10(Len(fp))
  IN IF ~ok THEN None
     ELSE Some(IF signed /\ tok[1] = "-" THEN 0 - mag ELSE mag)

\* fn parse_progress(line: &str) -> Option<f32>
parse_progress(line) ==
  LET idx == find(line, "%")
  IN IF idx # 0
     THEN LET before == SubSeq(line, 1, idx - 1)
              sp     == rfind(before, " ")
          IN IF sp = 0 THEN None                       \* rfind(' ')?
             ELSE LET p == parse_f32(trim(SubSeq(line, sp + 1, idx - 1)))
                  IN IF ~p.some THEN None              \* parse().ok()?
                     ELSE Some(p.val \div 100)         \* p / 100.0
     ELSE None

\* format!("{:.0}", x): nearest integer, ties to even, "-0" for a negative
\* value that rounds to zero
Round0(x) ==
  LET a == IF x < 0 THEN 0 - x ELSE x
      q == a \div FP
      r == a % FP
  IN IF 2 * r > FP \/ (2 * r = FP /\ q % 2 = 1) THEN q + 1 ELSE q

Fmt0(x) == IF x < 0 THEN "-" \o ToString(Round0(x)) ELSE ToString(Round0(x))

\* ------------------------------------------------------------ status texts
IdleText == "Idle"
StartingText == "Starting download..."
LaunchFailedText == "Failed to start yt-dlp"
CompletedText == "Download completed"
FailedText == "Download failed"

\* format!("Downloading... {:.0}%", p * 100.0)
DownloadingText(p) == "Downloading... " \o Fmt0(p * 100) \o "%"

\* ----------------------------------------------------------------- inputs
Formats == {"BestVideo", "AudioOnly"}

\* what the user has typed and chosen when the button is clicked
Request(u, f, d) == [url |-> u, format |-> f, dir |-> d]

Requests ==
  { Request("", "BestVideo", None),
    Request("u1", "BestVideo", None),
    Request("u2", "AudioOnly", Some("d")) }

NoRequest == Request("", "BestVideo", None)

\* every combination of URL field, format and optional destination
AllRequests ==
  { Request(u, f, d) : u \in {"", "u1"}, f \in Formats, d \in {None, Some("d")} }

\* stdout lines a subprocess may print
L10 == <<"1", "0", "%">>
L50 == <<"5", "0", "%">>
L100 == <<"1", "0", "0", "%">>
S10 == <<" ", "1", "0", "%">>
S50 == <<" ", "5", "0", "%">>
S150 == <<" ", "1", "5", "0", "%">>
SNeg == <<" ", "-", "5", "%">>
Merging == <<"M", "e", "r", "g", "i", "n", "g">>
Eta == <<" ", "E", "T", "A", "%">>

Lines == {L10, L50, L100, S10, S50, S150, SNeg, Merging, Eta}

\* the lines drawn where several tasks run at once
FewLines == {S50, S150, Merging}

\* every line of at most MaxLineLen characters over digits, '.', ' ', '%' and
\* a letter: what line 129 may hand to parse_progress
Alphabet == {"1", "5", ".", " ", "%", "a"}
AllLines == UNION { [1..n -> Alphabet] : n \in 0..MaxLineLen }

\* ------------------------------------------------------------ the argv
\* mutant: the URL is put right behind --newline
BuildArgsUrlFirst(url, format, dir) ==
  <<"--newline", url>>
  \o (IF dir.some THEN <<"-P", dir.val>> ELSE <<>>)
  \o (IF format = "BestVideo"
      THEN <<"-f", "bestvideo+bestaudio/best", "--merge-output-format", "mp4">>
      ELSE <<"-x", "--audio-format", "mp3">>)

\* lines 91-103: Command::new("yt-dlp") and its arguments
BuildArgs(url, format, dir) ==
  <<"--newline">>
  \o (IF dir.some THEN <<"-P", dir.val>> ELSE <<>>)
  \o (IF format = "BestVideo"
      THEN <<"-f", "bestvideo+bestaudio/best", "--merge-output-format", "mp4">>
      ELSE <<"-x", "--audio-format", "mp3">>)
  \o <<url>>

\* line 141
FormatLabel(format) == IF format = "BestVideo" THEN "Video" ELSE "MP3"

\* mutant: every entry is labelled Completed
OutcomeLabelAlwaysCompleted(success) == "Completed"

\* line 142
OutcomeLabel(success) == IF success THEN "Completed" ELSE "Failed"

\* lines 139-143
HistoryItem(url, format, success) ==
  [url |-> url, format |-> FormatLabel(format), status |-> OutcomeLabel(success)]

\* mutant: the two terminal messages are exchanged
FinalTextExchanged(success) == IF success THEN FailedText ELSE CompletedText

\* lines 145-149
FinalText(success) == IF success THEN CompletedText ELSE FailedText

\* ------------------------------------------------------------------ state
\* A task spawned at line 90.  pc is the next statement it runs; args, p and
\* success are its locals; lines, stream, spawned and pushed record what it
\* has seen and done (lines is kept only where a specification asks for it).
NewJob(req) ==
  [pc |-> "spawn", url |-> req.url, format |-> req.format, dir |-> req.dir,
   args |-> <<>>, p |-> 0, success |-> FALSE,
   lines |-> <<>>, stream |-> "open", spawned |-> "no", pushed |-> 0]

IdleUi == [pc |-> "idle", req |-> NoRequest, progress |-> 0, status |-> ""]

Init ==
  /\ status = IdleText
  /\ progress = 0
  /\ history = <<>>
  /\ jobs = <<>>
  /\ ui = IdleUi
  /\ child = <<>>

JobIds == 1..Len(jobs)

\* ------------------------------------------------------ the UI thread
\* line 79 false: the button was not clicked, or the URL field is empty
NoDownload ==
  /\ ui.pc = "idle"
  /\ ui' = [ui EXCEPT !.pc = "draw"]
  /\ UNCHANGED <<status, progress, history, jobs>>

\* mutant: the button is dead once a download has failed
DownloadUnlessFailed(req, maxJobs) ==
  /\ ui.pc = "idle"
  /\ req.url # ""
  /\ Len(jobs) < maxJobs
  /\ \A j \in 1..Len(jobs) :
       ~(jobs[j].pc = "done" /\ (jobs[j].spawned = "err" \/ ~jobs[j].success))
  /\ status' = StartingText
  /\ ui' = [ui EXCEPT !.pc = "reset", !.req = req]
  /\ UNCHANGED <<progress, history, jobs>>

\* lines 79-87: the click handler clones the request and writes the status
Download(req, maxJobs) ==
  /\ ui.pc = "idle"
  /\ req.url # ""
  /\ Len(jobs) < maxJobs
  /\ status' = StartingText
  /\ ui' = [ui EXCEPT !.pc = "reset", !.req = req]
  /\ UNCHANGED <<progress, history, jobs>>

\* mutant: the task is spawned without zeroing the progress
SpawnKeepsProgress ==
  /\ ui.pc = "reset"
  /\ jobs' = Append(jobs, NewJob(ui.req))
  /\ ui' = [ui EXCEPT !.pc = "draw", !.req = NoRequest]
  /\ UNCHANGED <<status, progress, history>>

\* mutant: starting a job empties the history
SpawnClearsHistory ==
  /\ ui.pc = "reset"
  /\ progress' = 0
  /\ history' = <<>>
  /\ jobs' = Append(jobs, NewJob(ui.req))
  /\ ui' = [ui EXCEPT !.pc = "draw", !.req = NoRequest]
  /\ UNCHANGED status

\* lines 88-90: the progress is zeroed and the task is handed to the runtime
Spawn ==
  /\ ui.pc = "reset"
  /\ progress' = 0
  /\ jobs' = Append(jobs, NewJob(ui.req))
  /\ ui' = [ui EXCEPT !.pc = "draw", !.req = NoRequest]
  /\ UNCHANGED <<status, history>>

\* lines 155-165 taken as one step: the three cells are read, nothing is kept
Render ==
  /\ ui.pc = "draw"
  /\ ui' = IdleUi
  /\ UNCHANGED <<status, progress, history, jobs>>

\* line 155: the progress bar reads the progress cell
DrawProgress ==
  /\ ui.pc = "draw"
  /\ ui' = [ui EXCEPT !.pc = "status", !.progress = progress]
  /\ UNCHANGED <<status, progress, history, jobs>>

\* line 156: the label reads the status cell
DrawStatus ==
  /\ ui.pc = "status"
  /\ ui' = [ui EXCEPT !.pc = "history", !.status = status]
  /\ UNCHANGED <<status, progress, history, jobs>>

\* lines 160-165: the history is read and the frame ends
DrawHistory ==
  /\ ui.pc = "history"
  /\ ui' = IdleUi
  /\ UNCHANGED <<status, progress, history, jobs>>

\* ------------------------------------------------------ a download task
\* mutant: a failed spawn() is recorded in the history as a failed download
SpawnChildRecordsFailure(j, ok) ==
  /\ jobs[j].pc = "spawn"
  /\ LET a == BuildArgs(jobs[j].url, jobs[j].format, jobs[j].dir)
     IN IF ok
        THEN /\ jobs' = [jobs EXCEPT ![j].pc = "read", ![j].args = a,
                                     ![j].spawned = "ok"]
             /\ UNCHANGED <<status, history>>
        ELSE /\ status' = LaunchFailedText
             /\ history' = Append(history,
                                  HistoryItem(jobs[j].url, jobs[j].format, FALSE))
             /\ jobs' = [jobs EXCEPT ![j].pc = "done", ![j].args = a,
                                     ![j].spawned = "err"]
  /\ UNCHANGED <<progress, ui>>

\* lines 91-113: build the command and spawn it; ok is the result of spawn()
SpawnChild(j, ok) ==
  /\ jobs[j].pc = "spawn"
  /\ LET a == BuildArgs(jobs[j].url, jobs[j].format, jobs[j].dir)
     IN IF ok
        THEN /\ jobs' = [jobs EXCEPT ![j].pc = "read", ![j].args = a,
                                     ![j].spawned = "ok"]
             /\ UNCHANGED status
        ELSE /\ status' = LaunchFailedText
             /\ jobs' = [jobs EXCEPT ![j].pc = "done", ![j].args = a,
                                     ![j].spawned = "err"]
  /\ UNCHANGED <<progress, history, ui>>

\* mutant: a line without a value ends the reading
ReadLineStopsOnGarbage(j, line, keep, maxLines) ==
  /\ jobs[j].pc = "read"
  /\ keep => Len(jobs[j].lines) < maxLines
  /\ LET r  == parse_progress(line)
         lg == IF keep THEN Append(jobs[j].lines, line) ELSE jobs[j].lines
     IN IF r.some
        THEN /\ progress' = r.val
             /\ jobs' = [jobs EXCEPT ![j].pc = "status", ![j].p = r.val,
                                     ![j].lines = lg]
        ELSE /\ jobs' = [jobs EXCEPT ![j].pc = "wait", ![j].lines = lg]
             /\ UNCHANGED progress
  /\ UNCHANGED <<status, history, ui>>

\* mutant: a value below the one already shown is dropped
ReadLineKeepsMaximum(j, line, keep, maxLines) ==
  /\ jobs[j].pc = "read"
  /\ keep => Len(jobs[j].lines) < maxLines
  /\ LET r  == parse_progress(line)
         lg == IF keep THEN Append(jobs[j].lines, line) ELSE jobs[j].lines
     IN IF r.some /\ r.val >= progress
        THEN /\ progress' = r.val
             /\ jobs' = [jobs EXCEPT ![j].pc = "status", ![j].p = r.val,
                                     ![j].lines = lg]
        ELSE /\ jobs' = [jobs EXCEPT ![j].lines = lg]
             /\ UNCHANGED progress
  /\ UNCHANGED <<status, history, ui>>

\* lines 129-131: next_line() yields a line; a parsed value is stored
ReadLine(j, line, keep, maxLines) ==
  /\ jobs[j].pc = "read"
  /\ keep => Len(jobs[j].lines) < maxLines
  /\ LET r  == parse_progress(line)
         lg == IF keep THEN Append(jobs[j].lines, line) ELSE jobs[j].lines
     IN IF r.some
        THEN /\ progress' = r.val
             /\ jobs' = [jobs EXCEPT ![j].pc = "status", ![j].p = r.val,
                                     ![j].lines = lg]
        ELSE /\ jobs' = [jobs EXCEPT ![j].lines = lg]
             /\ UNCHANGED progress
  /\ UNCHANGED <<status, history, ui>>

\* line 132: the status derived from the value just stored
WriteStatus(j) ==
  /\ jobs[j].pc = "status"
  /\ status' = DownloadingText(jobs[j].p)
  /\ jobs' = [jobs EXCEPT ![j].pc = "read", ![j].p = 0]
  /\ UNCHANGED <<progress, history, ui>>

\* line 129: next_line() yields Ok(None) ("eof") or Err(_) ("err")
EndOfStream(j, how) ==
  /\ jobs[j].pc = "read"
  /\ jobs' = [jobs EXCEPT ![j].pc = "wait", ![j].stream = how]
  /\ UNCHANGED <<status, progress, history, ui>>

\* mutant: the new entry is put in front, the order in which it is shown
WaitAndRecordNewestFirst(j, success) ==
  /\ jobs[j].pc = "wait"
  /\ history' = <<HistoryItem(jobs[j].url, jobs[j].format, success)>> \o history
  /\ jobs' = [jobs EXCEPT ![j].pc = "final", ![j].success = success,
                          ![j].pushed = @ + 1]
  /\ UNCHANGED <<status, progress, ui>>

\* lines 137-143: wait() returns; success is exit status 0, false for any
\* other status and when wait() itself fails; the history entry is pushed
WaitAndRecord(j, success) ==
  /\ jobs[j].pc = "wait"
  /\ history' = Append(history, HistoryItem(jobs[j].url, jobs[j].format, success))
  /\ jobs' = [jobs EXCEPT ![j].pc = "final", ![j].success = success,
                          ![j].pushed = @ + 1]
  /\ UNCHANGED <<status, progress, ui>>

\* mutant: a successful job fills the progress bar
FinishFillsBar(j) ==
  /\ jobs[j].pc = "final"
  /\ status' = FinalText(jobs[j].success)
  /\ progress' = IF jobs[j].success THEN FP ELSE progress
  /\ jobs' = [jobs EXCEPT ![j].pc = "done"]
  /\ UNCHANGED <<history, ui>>

\* lines 145-150: the terminal status; the task ends
Finish(j) ==
  /\ jobs[j].pc = "final"
  /\ status' = FinalText(jobs[j].success)
  /\ jobs' = [jobs EXCEPT ![j].pc = "done"]
  /\ UNCHANGED <<progress, history, ui>>

\* ------------------------------------------------------- the subprocess
\* The process started at line 107 with stdout and stderr piped (104-105).
\* out and err are what it still wants to write, outBuf and errBuf what sits
\* in the two pipes; the task reads the stdout pipe (line 129) and nothing
\* reads the stderr pipe.
NoChild == [state |-> "none", out |-> 0, err |-> 0, outBuf |-> 0, errBuf |-> 0]

StartedChild(out, err) ==
  [state |-> "running", out |-> out, err |-> err, outBuf |-> 0, errBuf |-> 0]

\* lines 79-90 where the subprocess is followed
LiveSpawn ==
  /\ Spawn
  /\ child' = Append(child, NoChild)

\* lines 91-113; out and err are what the started program is going to write
LiveSpawnChild(j, ok, out, err) ==
  /\ SpawnChild(j, ok)
  /\ child' = [child EXCEPT ![j] = IF ok THEN StartedChild(out, err) ELSE @]

\* the subprocess writes a line to stdout; the write blocks while the pipe
\* (line 104) is full
ChildPrint(j) ==
  /\ child[j].state = "running"
  /\ child[j].out > 0
  /\ child[j].outBuf < PipeCap
  /\ child' = [child EXCEPT ![j].out = @ - 1, ![j].outBuf = @ + 1]
  /\ UNCHANGED <<status, progress, history, jobs, ui>>

\* the subprocess writes a chunk to stderr; the write blocks while the pipe
\* (line 105) is full
ChildWarn(j) ==
  /\ child[j].state = "running"
  /\ child[j].err > 0
  /\ child[j].errBuf < PipeCap
  /\ child' = [child EXCEPT ![j].err = @ - 1, ![j].errBuf = @ + 1]
  /\ UNCHANGED <<status, progress, history, jobs, ui>>

\* the subprocess has written everything and exits; its pipe ends close
ChildExit(j) ==
  /\ child[j].state = "running"
  /\ child[j].out = 0
  /\ child[j].err = 0
  /\ child' = [child EXCEPT ![j].state = "exited"]
  /\ UNCHANGED <<status, progress, history, jobs, ui>>

\* line 129: next_line() completes with a line once one is in the pipe
LiveReadLine(j, line) ==
  /\ child[j].outBuf > 0
  /\ ReadLine(j, line, FALSE, 0)
  /\ child' = [child EXCEPT ![j].outBuf = @ - 1]

\* line 129: next_line() completes with Err(_): the line taken from the pipe
\* is not valid UTF-8.  The loop ends; the reader stays in scope but nothing
\* reads the pipe any more.
LiveReadError(j) ==
  /\ child[j].outBuf > 0
  /\ EndOfStream(j, "err")
  /\ child' = [child EXCEPT ![j].outBuf = @ - 1]

\* line 129: next_line() completes with Ok(None) once the pipe is empty and
\* its write end is closed
LiveEndOfStream(j) ==
  /\ child[j].state = "exited"
  /\ child[j].outBuf = 0
  /\ EndOfStream(j, "eof")
  /\ UNCHANGED child

\* line 137: wait() completes once the subprocess has exited
LiveWaitAndRecord(j, success) ==
  /\ child[j].state = "exited"
  /\ WaitAndRecord(j, success)
  /\ UNCHANGED child

\* ---------------------------------------------------------- specifications
\* Spec: up to MaxJobs clicks; the tasks and the UI thread interleave freely.
\* The render of a frame only reads the cells and is taken as one step.
Next ==
  \/ NoDownload /\ UNCHANGED child
  \/ \E req \in Requests : Download(req, MaxJobs) /\ UNCHANGED child
  \/ Spawn /\ UNCHANGED child
  \/ Render /\ UNCHANGED child
  \/ \E j \in JobIds, ok \in BOOLEAN : SpawnChild(j, ok) /\ UNCHANGED child
  \/ \E j \in JobIds, line \in FewLines : ReadLine(j, line, FALSE, 0)
       /\ UNCHANGED child
  \/ \E j \in JobIds : WriteStatus(j) /\ UNCHANGED child
  \/ \E j \in JobIds, how \in {"eof", "err"} : EndOfStream(j, how)
       /\ UNCHANGED child
  \/ \E j \in JobIds, success \in BOOLEAN : WaitAndRecord(j, success)
       /\ UNCHANGED child
  \/ \E j \in JobIds : Finish(j) /\ UNCHANGED child

Spec == Init /\ [][Next]_vars

\* SpecSingle: one click; the lines the task reads are logged in jobs[1].lines
\* and at most MaxLines of them are read.
NextSingle ==
  \/ NoDownload /\ UNCHANGED child
  \/ \E req \in Requests : Download(req, 1) /\ UNCHANGED child
  \/ Spawn /\ UNCHANGED child
  \/ Render /\ UNCHANGED child
  \/ \E j \in JobIds, ok \in BOOLEAN : SpawnChild(j, ok) /\ UNCHANGED child
  \/ \E j \in JobIds, line \in Lines : ReadLine(j, line, TRUE, MaxLines)
       /\ UNCHANGED child
  \/ \E j \in JobIds : WriteStatus(j) /\ UNCHANGED child
  \/ \E j \in JobIds, how \in {"eof", "err"} : EndOfStream(j, how)
       /\ UNCHANGED child
  \/ \E j \in JobIds, success \in BOOLEAN : WaitAndRecord(j, success)
       /\ UNCHANGED child
  \/ \E j \in JobIds : Finish(j) /\ UNCHANGED child

SpecSingle == Init /\ [][NextSingle]_vars

\* SpecReader: one click; the render reads the cells one lock at a time while
\* the task writes them.
NextReader ==
  \/ NoDownload /\ UNCHANGED child
  \/ \E req \in Requests : Download(req, 1) /\ UNCHANGED child
  \/ Spawn /\ UNCHANGED child
  \/ DrawProgress /\ UNCHANGED child
  \/ DrawStatus /\ UNCHANGED child
  \/ DrawHistory /\ UNCHANGED child
  \/ \E j \in JobIds, ok \in BOOLEAN : SpawnChild(j, ok) /\ UNCHANGED child
  \/ \E j \in JobIds, line \in Lines : ReadLine(j, line, FALSE, 0)
       /\ UNCHANGED child
  \/ \E j \in JobIds : WriteStatus(j) /\ UNCHANGED child
  \/ \E j \in JobIds, how \in {"eof", "err"} : EndOfStream(j, how)
       /\ UNCHANGED child
  \/ \E j \in JobIds, success \in BOOLEAN : WaitAndRecord(j, success)
       /\ UNCHANGED child
  \/ \E j \in JobIds : Finish(j) /\ UNCHANGED child

SpecReader == Init /\ [][NextReader]_vars

\* SpecParse: one click; the task reads one line, any line over Alphabet, and
\* logs it.
NextParse ==
  \/ NoDownload /\ UNCHANGED child
  \/ \E req \in Requests : Download(req, 1) /\ UNCHANGED child
  \/ Spawn /\ UNCHANGED child
  \/ Render /\ UNCHANGED child
  \/ \E j \in JobIds, ok \in BOOLEAN : SpawnChild(j, ok) /\ UNCHANGED child
  \/ \E j \in JobIds, line \in AllLines : ReadLine(j, line, TRUE, 1)
       /\ UNCHANGED child
  \/ \E j \in JobIds : WriteStatus(j) /\ UNCHANGED child
  \/ \E j \in JobIds, how \in {"eof", "err"} : EndOfStream(j, how)
       /\ UNCHANGED child
  \/ \E j \in JobIds, success \in BOOLEAN : WaitAndRecord(j, success)
       /\ UNCHANGED child
  \/ \E j \in JobIds : Finish(j) /\ UNCHANGED child

SpecParse == Init /\ [][NextParse]_vars

\* SpecArgs: one click, with any combination of format and destination.
NextArgs ==
  \/ NoDownload /\ UNCHANGED child
  \/ \E req \in AllRequests : Download(req, 1) /\ UNCHANGED child
  \/ Spawn /\ UNCHANGED child
  \/ Render /\ UNCHANGED child
  \/ \E j \in JobIds, ok \in BOOLEAN : SpawnChild(j, ok) /\ UNCHANGED child
  \/ \E j \in JobIds, line \in FewLines : ReadLine(j, line, FALSE, 0)
       /\ UNCHANGED child
  \/ \E j \in JobIds : WriteStatus(j) /\ UNCHANGED child
  \/ \E j \in JobIds, how \in {"eof", "err"} : EndOfStream(j, how)
       /\ UNCHANGED child
  \/ \E j \in JobIds, success \in BOOLEAN : WaitAndRecord(j, success)
       /\ UNCHANGED child
  \/ \E j \in JobIds : Finish(j) /\ UNCHANGED child

SpecArgs == Init /\ [][NextArgs]_vars

\* SpecLive: one click; the subprocess is followed write by write.  The
\* runtime runs a task that can take a step, the operating system runs a
\* subprocess that can, and the click handler runs to its end.
LiveTaskStep ==
  \E j \in JobIds :
    \/ \E ok \in BOOLEAN, out \in 0..MaxOut, err \in 0..MaxErr :
         LiveSpawnChild(j, ok, out, err)
    \/ LiveReadError(j)
    \/ \E line \in FewLines : LiveReadLine(j, line)
    \/ WriteStatus(j) /\ UNCHANGED child
    \/ LiveEndOfStream(j)
    \/ \E success \in BOOLEAN : LiveWaitAndRecord(j, success)
    \/ Finish(j) /\ UNCHANGED child

ChildStep == \E j \in JobIds : ChildPrint(j) \/ ChildWarn(j) \/ ChildExit(j)

NextLive ==
  \/ NoDownload /\ UNCHANGED child
  \/ \E req \in Requests : Download(req, 1) /\ UNCHANGED child
  \/ LiveSpawn
  \/ Render /\ UNCHANGED child
  \/ \E j \in JobIds, ok \in BOOLEAN, out \in 0..MaxOut, err \in 0..MaxErr :
       LiveSpawnChild(j, ok, out, err)
  \/ \E j \in JobIds : ChildPrint(j)
  \/ \E j \in JobIds : ChildWarn(j)
  \/ \E j \in JobIds : ChildExit(j)
  \/ \E j \in JobIds, line \in FewLines : LiveReadLine(j, line)
  \/ \E j \in JobIds : LiveReadError(j)
  \/ \E j \in JobIds : WriteStatus(j) /\ UNCHANGED child
  \/ \E j \in JobIds : LiveEndOfStream(j)
  \/ \E j \in JobIds, success \in BOOLEAN : LiveWaitAndRecord(j, success)
  \/ \E j \in JobIds : Finish(j) /\ UNCHANGED child

LiveFairness ==
  /\ WF_vars(LiveSpawn)
  /\ WF_vars(LiveTaskStep)
  /\ WF_vars(ChildStep)

SpecLive == Init /\ [][NextLive]_vars /\ LiveFairness

\* ------------------------------------------------------------------ claims
Launched(j) == jobs[j].spawned = "ok"
Terminal(j) == jobs[j].pc = "done"
\* between the launch and the terminal status
InFlight(j) == jobs[j].pc \in {"read", "status", "wait", "final"}

\* C1: a single job whose subprocess prints the lines "10%", "50%", "100%" in
\* that order and exits with status 0 ends with the progress fraction at 1.0
\* and with exactly one history entry, whose outcome is Completed.
C1_ThreeLinesThenSuccess ==
  \A j \in JobIds :
    ( /\ Terminal(j) /\ Launched(j)
      /\ jobs[j].lines = <<L10, L50, L100>>
      /\ jobs[j].stream = "eof"
      /\ jobs[j].success )
    => /\ progress = FP
       /\ Len(history) = 1
       /\ history[1].status = "Completed"

\* C4: in every reachable state the progress fraction, in the cell and as read
\* by the progress bar, lies in [0.0, 1.0], whatever lines the subprocess
\* prints.
C4_ProgressInUnitInterval ==
  /\ 0 <= progress /\ progress <= FP
  /\ 0 <= ui.progress /\ ui.progress <= FP

\* the values parse_progress yields on the lines of the model
ProgressValues ==
  { parse_progress(l).val : l \in { m \in Lines : parse_progress(m).some } }

\* C5: a frame that shows a "Downloading... N%" status shows with it the
\* progress fraction of the same line update (N = p * 100), never the fraction
\* of another update.  (Stated for the messages of in-range values, so that a
\* violation owes nothing to C4.)
C5_NoTornRead ==
  ( /\ ui.pc = "history"
    /\ \E q \in ProgressValues :
         0 <= q /\ q <= FP /\ ui.status = DownloadingText(q) )
  => ui.status = DownloadingText(ui.progress)

\* the step of task j that pushes its history entry (lines 137-143)
Records(j) == jobs[j].pc = "wait" /\ jobs'[j].pc = "final"
\* the step of task j that writes its terminal status (lines 145-149)
Finishes(j) == jobs[j].pc = "final" /\ jobs'[j].pc = "done"
\* the step of task j whose spawn() failed (lines 107-112)
FailsToLaunch(j) == jobs[j].pc = "spawn" /\ jobs'[j].spawned = "err"

\* C2: a launched job whose exit status is not success appends exactly one
\* history entry, of outcome Failed, and the last status text it writes is
\* the failure message; it is not launched a second time.
C2_FailedStep ==
  \A j \in JobIds :
    /\ (Records(j) /\ ~jobs'[j].success) =>
         /\ Len(history') = Len(history) + 1
         /\ SubSeq(history', 1, Len(history)) = history
         /\ history'[Len(history')].status = "Failed"
         /\ history'[Len(history')].url = jobs[j].url
    /\ (Finishes(j) /\ ~jobs[j].success) => status' = "Download failed"
    /\ Terminal(j) => jobs'[j] = jobs[j]
    /\ jobs[j].spawned # "no" => jobs'[j].spawned = jobs[j].spawned

C2_FailedState ==
  \A j \in JobIds :
    /\ jobs[j].pushed <= 1
    /\ (Terminal(j) /\ Launched(j)) => jobs[j].pushed = 1

C2_FailedRecordedOnce == [][C2_FailedStep]_vars /\ []C2_FailedState

C2_Witness ==
  \E j \in JobIds :
    /\ Terminal(j) /\ Launched(j) /\ ~jobs[j].success
    /\ status = "Download failed"
    /\ \E i \in 1..Len(history) : history[i].status = "Failed"

\* C3: when spawn() fails the click handler has already returned; the task
\* writes the launch-error status and ends, and neither the click handler nor
\* the task adds a history entry for that job.
C3_LaunchFailureStep ==
  /\ \A j \in JobIds :
       FailsToLaunch(j) =>
         /\ status' = "Failed to start yt-dlp"
         /\ jobs'[j].pc = "done"
         /\ history' = history
         /\ ui' = ui
  /\ ui'.pc # ui.pc => history' = history

C3_LaunchFailureState ==
  \A j \in JobIds :
    jobs[j].spawned = "err" => (Terminal(j) /\ jobs[j].pushed = 0)

C3_LaunchFailureLeavesHistory ==
  [][C3_LaunchFailureStep]_vars /\ []C3_LaunchFailureState

C3_Witness ==
  \E j \in JobIds :
    /\ jobs[j].spawned = "err" /\ Terminal(j)
    /\ status = "Failed to start yt-dlp"
    /\ history = <<>>

\* C6: the history is append-only: a step leaves it alone or appends one
\* entry behind the entries already there, which keep their position and
\* content; it grows exactly in the step in which a launched job has its exit
\* status, so it holds one entry per job that has got that far.
C6_AppendStep ==
  /\ Len(history') >= Len(history)
  /\ Len(history') <= Len(history) + 1
  /\ SubSeq(history', 1, Len(history)) = history
  /\ (history' # history) <=> (\E j \in JobIds : Records(j))

C6_OnePerFinishedJob ==
  Len(history) =
    Cardinality({ j \in JobIds : Launched(j) /\ jobs[j].pc \in {"final", "done"} })

C6_HistoryAppendOnly == [][C6_AppendStep]_vars /\ []C6_OnePerFinishedJob

C6_Witness ==
  /\ Len(history) = 2
  /\ history[1] # history[2]
  /\ \A j \in JobIds : Terminal(j)

\* C7: at most one job is between its launch and its terminal status at any
\* time.
C7_AtMostOneInFlight == Cardinality({ j \in JobIds : InFlight(j) }) <= 1

\* the click handler is between its two writes (lines 87 and 88)
Resetting == ui.pc = "reset"

\* C8: once a job has written its terminal status its task writes nothing more,
\* and the status text and the progress fraction stay as they are until the
\* next start().  (The second part is stated for the job started last: while
\* it is terminal and no click is being handled, no start() has been called
\* since its terminal write.)
C8_FrozenStep ==
  /\ \A j \in JobIds : Terminal(j) => jobs'[j] = jobs[j]
  /\ ( /\ jobs # <<>> /\ Terminal(Len(jobs))
       /\ ~Resetting /\ ui'.pc # "reset" )
     => (status' = status /\ progress' = progress)

C8_FrozenAfterTerminal == [][C8_FrozenStep]_vars

C9_ResetStep ==
  /\ (ui.pc = "idle" /\ ui'.pc = "reset") => status' = "Starting download..."
  /\ (Resetting /\ ui'.pc = "draw") =>
       /\ progress' = 0
       /\ status' = status
       /\ Len(jobs') = Len(jobs) + 1
       /\ jobs'[Len(jobs')].pc = "spawn"
  /\ (Resetting /\ ui'.pc = "reset" /\ status' # status) =>
       \E j \in JobIds : ~Terminal(j) /\ jobs'[j] # jobs[j]

Failed(j) ==
  /\ Terminal(j)
  /\ jobs[j].spawned = "err" \/ ~jobs[j].success \/ jobs[j].stream = "err"

\* a step of task j that needs no further line from the subprocess
JobStep(j) ==
  \/ \E ok \in BOOLEAN : SpawnChild(j, ok)
  \/ WriteStatus(j)
  \/ \E how \in {"eof", "err"} : EndOfStream(j, how)
  \/ \E success \in BOOLEAN : WaitAndRecord(j, success)
  \/ Finish(j)

\* C10: a failed job stops nothing.  After it the button still starts a job
\* (up to the model's bound on clicks), start() resets the cells as always,
\* every task that has not ended can take its next step and ends with its own
\* single history entry if it was launched; the steps by which a job fails
\* touch only the status text (launch failure, failure status) or append the
\* one history entry.
C10_AvailableState ==
  /\ ( /\ \E j \in JobIds : Failed(j)
       /\ ui.pc = "idle" /\ Len(jobs) < MaxJobs )
     => ENABLED (\E req \in Requests : Download(req, MaxJobs))
  /\ \A j \in JobIds :
       /\ ~Terminal(j) => ENABLED JobStep(j)
       /\ (Terminal(j) /\ Launched(j)) => jobs[j].pushed = 1
       /\ (Terminal(j) /\ ~Launched(j)) => jobs[j].pushed = 0

C10_ConfinedStep ==
  /\ \A j \in JobIds :
       /\ FailsToLaunch(j) =>
            /\ progress' = progress /\ history' = history /\ ui' = ui
            /\ \A k \in JobIds : k # j => jobs'[k] = jobs[k]
       /\ (Records(j) /\ ~jobs'[j].success) =>
            /\ progress' = progress /\ status' = status /\ ui' = ui
            /\ Len(history') = Len(history) + 1
            /\ \A k \in JobIds : k # j => jobs'[k] = jobs[k]
       /\ (Finishes(j) /\ ~jobs[j].success) =>
            /\ progress' = progress /\ history' = history /\ ui' = ui
            /\ \A k \in JobIds : k # j => jobs'[k] = jobs[k]
  /\ ( /\ \E j \in JobIds : Failed(j)
       /\ ui.pc = "idle" /\ ui'.pc = "reset" )
     => status' = "Starting download..."
  /\ ( /\ \E j \in JobIds : Failed(j)
       /\ Resetting /\ ui'.pc = "draw" )
     => (progress' = 0 /\ jobs'[Len(jobs')].pc = "spawn")

C10_FailureNotFatal == [][C10_ConfinedStep]_vars /\ []C10_AvailableState

C10_Witness ==
  /\ Len(jobs) = 2
  /\ Failed(1) /\ Launched(1) /\ ~jobs[1].success
  /\ Terminal(2) /\ Launched(2) /\ jobs[2].success /\ jobs[2].stream = "eof"
  /\ history = << HistoryItem(jobs[1].url, jobs[1].format, FALSE),
                  HistoryItem(jobs[2].url, jobs[2].format, TRUE) >>
  /\ status = "Download completed"

\* the reference algorithm of the specification: the last '%', the token from
\* the nearest whitespace before it (or from the start of the line) up to it,
\* and the token's value over 100 when it is a number
RefParse(line) ==
  LET idx == rfind(line, "%")
  IN IF idx = 0 THEN None
     ELSE LET ws == { k \in 1..(idx - 1) : IsWhitespace(line[k]) }
              b  == IF ws = {} THEN 0
                    ELSE CHOOSE k \in ws : \A m \in ws : m <= k
              p  == parse_f32(SubSeq(line, b + 1, idx - 1))
          IN IF p.some THEN Some(p.val \div 100) ELSE None

\* C11: on every line over the alphabet parse_progress gives the result of the
\* reference algorithm (last '%', token from the nearest whitespace or from
\* the start of the line): after a job has read its one line the progress
\* fraction is the reference value of that line, or still the 0.0 of the reset
\* when the reference finds no value.
C11_ParseMatchesReference ==
  \A j \in JobIds :
    jobs[j].lines # <<>> =>
      LET r == RefParse(jobs[j].lines[Len(jobs[j].lines)])
      IN progress = (IF r.some THEN r.val ELSE 0)

\* the token that ends just before position i: from the nearest whitespace
\* before i, or from the start of the line
TokenBefore(line, i) ==
  LET ws == { k \in 1..(i - 1) : IsWhitespace(line[k]) }
      b  == IF ws = {} THEN 0 ELSE CHOOSE k \in ws : \A m \in ws : m <= k
  IN SubSeq(line, b + 1, i - 1)

\* a line with no '%', or with no number before any of its '%'
CarriesNoProgress(line) ==
  \A i \in 1..Len(line) :
    line[i] = "%" => ~parse_f32(TokenBefore(line, i)).some

\* task j reads one more line in this step
Reads(j) == Len(jobs'[j].lines) = Len(jobs[j].lines) + 1

\* C12: a line that carries no progress (no '%', or a non-numeric token
\* before the '%') is ignored: the step that reads it leaves the status text,
\* the progress fraction and the history as they are, and the task stays in
\* its read loop with the stream open, neither ending nor failing.
C12_IgnoredStep ==
  \A j \in JobIds :
    (Reads(j) /\ CarriesNoProgress(jobs'[j].lines[Len(jobs'[j].lines)])) =>
      /\ status' = status
      /\ progress' = progress
      /\ history' = history
      /\ jobs'[j].pc = "read"
      /\ jobs'[j].stream = "open"
      /\ jobs'[j] = [jobs[j] EXCEPT !.lines = jobs'[j].lines]

C12_LineWithoutProgressIgnored == [][C12_IgnoredStep]_vars

C12_Witness ==
  \E j \in JobIds :
    /\ jobs[j].lines = <<Merging, S50, Eta>>
    /\ jobs[j].pc = "read"
    /\ progress = parse_progress(S50).val
    /\ status = DownloadingText(parse_progress(S50).val)

\* C13: every started job eventually reaches a terminal status (completed,
\* failed or launch error) under fair scheduling, whatever finite number of
\* stdout lines and finite amount of stderr output its subprocess wants to
\* write before it exits, the stderr pipe being bounded and never read.
\* (Stated for the jobs whose reading of stdout meets no error, so that a
\* violation owes nothing to C15.)
C13_EveryJobTerminates ==
  (Len(jobs) >= 1) ~> (Len(jobs) >= 1 /\ (Terminal(1) \/ jobs[1].stream = "err"))

\* C15: when the reading of stdout returns an error before the subprocess has
\* exited, the job stops processing lines and awaits the exit status; it
\* still appends its one history entry and sets a terminal status.  (Stated
\* for the subprocesses that write nothing to stderr, so that a violation owes
\* nothing to C13.)
C15_ReadErrorStillTerminates ==
  (Len(jobs) >= 1 /\ jobs[1].stream = "err"
     /\ child[1].err = 0 /\ child[1].errBuf = 0)
  ~> (Len(jobs) >= 1 /\ Terminal(1) /\ jobs[1].pushed = 1)

\* C14: within one job the lines are processed one after the other in the
\* order of their emission.  The log of lines only grows at its end; the step
\* that reads a progress-bearing line writes that line's parsed value to the
\* progress fraction and is followed by that line's status write before
\* anything else of the task; no other step of the task writes the progress
\* fraction, so the values written are the parsed values of the
\* progress-bearing lines, in order, each once.  The exit status is awaited
\* only from the read loop, with the last line fully processed, and no line
\* is read after that.
C14_SequentialStep ==
  \A j \in JobIds :
    /\ jobs'[j].lines # jobs[j].lines =>
         /\ Reads(j)
         /\ SubSeq(jobs'[j].lines, 1, Len(jobs[j].lines)) = jobs[j].lines
         /\ jobs[j].pc = "read"
    /\ Reads(j) =>
         LET r == parse_progress(jobs'[j].lines[Len(jobs'[j].lines)])
         IN IF r.some
            THEN progress' = r.val /\ jobs'[j].pc = "status"
            ELSE progress' = progress /\ jobs'[j].pc = "read"
    /\ (jobs'[j] # jobs[j] /\ ~Reads(j)) => progress' = progress
    /\ jobs[j].pc = "status" => jobs'[j].pc \in {"status", "read"}
    /\ (jobs'[j].pc = "wait" /\ jobs[j].pc # "wait") => jobs[j].pc = "read"
    /\ jobs[j].pc \in {"wait", "final", "done"} =>
         /\ jobs'[j].lines = jobs[j].lines
         /\ jobs'[j].pc \in {"wait", "final", "done"}

C14_LinesInOrder == [][C14_SequentialStep]_vars

C14_Witness ==
  \E j \in JobIds :
    /\ jobs[j].lines = <<S150, Merging, S50>>
    /\ jobs[j].pc = "wait"
    /\ progress = parse_progress(S50).val

\* C16: the history is written only by a job's task at its completion.  Every
\* step of the UI thread (the two writes of start(), the frames that show the
\* history) leaves it unchanged, and so does every step of a task that is at
\* its launch, in its read loop, at the status write of a line or at its
\* terminal status write; a step that changes it is the completion step of a
\* task, the one that has just got the exit status.
C16_WriterStep ==
  /\ ui' # ui => history' = history
  /\ \A j \in JobIds :
       (jobs'[j] # jobs[j] /\ jobs[j].pc \in {"spawn", "read", "status", "final"})
       => history' = history
  /\ history' # history =>
       \E j \in JobIds :
         /\ jobs[j].pc = "wait"
         /\ jobs'[j].pc = "final"
         /\ history' = Append(history,
                              HistoryItem(jobs[j].url, jobs[j].format,
                                          jobs'[j].success))

C16_HistoryWrittenAtCompletion == [][C16_WriterStep]_vars

C16_Witness ==
  /\ Len(jobs) = 2
  /\ Terminal(1) /\ Launched(1)
  /\ jobs[2].spawned = "err"
  /\ ui.pc = "idle"
  /\ history = <<HistoryItem(jobs[1].url, jobs[1].format, jobs[1].success)>>

\* C17: with a single job, whenever the status text is the completed or the
\* failed terminal message, the history already holds that job's entry, and
\* the entry's outcome agrees with the message.
C17_EntryBeforeTerminalStatus ==
  status \in {"Download completed", "Download failed"} =>
    /\ Len(jobs) = 1
    /\ history = <<HistoryItem(jobs[1].url, jobs[1].format, jobs[1].success)>>
    /\ status = "Download completed" <=> history[1].status = "Completed"
    /\ status = "Download failed" <=> history[1].status = "Failed"

C17_Witness ==
  /\ status = "Download failed"
  /\ Len(history) = 1
  /\ history[1].status = "Failed"
  /\ history[1].url = "u2"

\* the flags of the two formats
VideoFlags == <<"-f", "bestvideo+bestaudio/best", "--merge-output-format", "mp4">>
AudioFlags == <<"-x", "--audio-format", "mp3">>

\* the run of elements fl occurs in the list a
Contains(a, fl) ==
  \E i \in 1..Len(a) :
    i + Len(fl) - 1 <= Len(a) /\ SubSeq(a, i, i + Len(fl) - 1) = fl

\* C18: the argument list handed to the subprocess begins with the
\* line-oriented-progress flag, holds the destination flag followed by its
\* value exactly when a destination was given, holds the flags of exactly one
\* format, the requested one, and nothing else but the URL, which is its last
\* element; this for every combination of format and destination.
C18_ArgsFromRequest ==
  \A j \in JobIds :
    jobs[j].spawned # "no" =>
      LET a == jobs[j].args
          d == jobs[j].dir
      IN /\ Len(a) >= 2
         /\ a[1] = "--newline"
         /\ a[Len(a)] = jobs[j].url
         /\ d.some <=> (\E i \in 1..Len(a) : a[i] = "-P")
         /\ d.some => Contains(a, <<"-P", d.val>>)
         /\ Contains(a, VideoFlags) <=> jobs[j].format = "BestVideo"
         /\ Contains(a, AudioFlags) <=> jobs[j].format = "AudioOnly"
         /\ (\E i \in 1..Len(a) : a[i] \in {"-f", "--merge-output-format"})
              => jobs[j].format = "BestVideo"
         /\ (\E i \in 1..Len(a) : a[i] \in {"-x", "--audio-format"})
              => jobs[j].format = "AudioOnly"
         /\ Len(a) = 2 + (IF d.some THEN 2 ELSE 0)
                       + (IF jobs[j].format = "BestVideo" THEN 4 ELSE 3)

C18_Witness ==
  \E j \in JobIds :
    /\ Launched(j)
    /\ jobs[j].format = "AudioOnly" /\ jobs[j].dir = Some("d")
    /\ jobs[j].args = <<"--newline", "-P", "d", "-x", "--audio-format", "mp3", "u1">>

\* the value parse_progress yields on the last line of ls on which it yields
\* one; 0.0, the value of the reset, when there is no such line
RECURSIVE LastParsed(_)
LastParsed(ls) ==
  IF ls = <<>> THEN 0
  ELSE LET r == parse_progress(ls[Len(ls)])
       IN IF r.some THEN r.val ELSE LastParsed(SubSeq(ls, 1, Len(ls) - 1))

\* C19: the completion of a job does not write the progress fraction.  The
\* steps that take the exit status, write the terminal status or report the
\* launch failure leave it as it is, and with a single job the progress
\* fraction of the terminal state is the value parsed from the last
\* progress-bearing line the job read, 0.0 if it read none, whether the job
\* completed, failed or was not launched.
C19_CompletionStep ==
  \A j \in JobIds :
    (Records(j) \/ Finishes(j) \/ FailsToLaunch(j)) => progress' = progress

C19_TerminalState ==
  \A j \in JobIds : Terminal(j) => progress = LastParsed(jobs[j].lines)

C19_CompletionKeepsProgress == [][C19_CompletionStep]_vars /\ []C19_TerminalState

C19_Witness ==
  \E j \in JobIds :
    /\ Terminal(j) /\ Launched(j) /\ jobs[j].success
    /\ jobs[j].lines = <<S10, S50, Merging>>
    /\ status = "Download completed"
    /\ progress = parse_progress(S50).val
====
